---- MODULE Spec2Model ----
(***************************************************************************)
(* Model of the credential gateway of mcp_server: the Secret Cipher and    *)
(* Token Service (app/core/security.py), the credential-management         *)
(* endpoints (app/api/endpoints/api_keys.py), the login endpoint           *)
(* (app/api/endpoints/users.py) and the Request Interceptor                *)
(* (app/middleware/api_key_middleware.py) over the two tables of           *)
(* app/models/api_key.py.                                                  *)
(*                                                                         *)
(* Conventions.  An Optional[T] value is a sequence: <<>> is None and      *)
(* <<v>> is the value v.  Time is a count of clock ticks.  The columns     *)
(* created_at/updated_at, ip_address and user_agent carry no behaviour and *)
(* are left out of the rows.                                               *)
(***************************************************************************)
EXTENDS Integers, Sequences, FiniteSets, Bags, TLC

(***************************************************************************)
(* Bounds of the model.                                                    *)
(***************************************************************************)
MaxTime == 2
MaxKeys == 2
MaxGateKeys == 1
MaxUsage == 2
MaxInFlight == 2

(***************************************************************************)
(* Program constants; time is counted in minutes.  check_rate_limit reads  *)
(* settings.RATE_LIMIT_WINDOW (seconds), which Settings does not define:   *)
(* the window is the 60 seconds the specification gives as its default.    *)
(* SECRET_KEY and ENCRYPTION_KEY stand for the random secrets drawn at     *)
(* start-up; ByteMod is the size of the byte alphabet of the cipher.       *)
(***************************************************************************)
RATE_LIMIT_PER_MINUTE == 60
RATE_LIMIT_WINDOW == 1
ACCESS_TOKEN_EXPIRE_MINUTES == 11520
SECRET_KEY == 11
ENCRYPTION_KEY == 3
ByteMod == 4

None == <<>>
Some(v) == <<v>>

(* Python truthiness of an Optional[int]: None and 0 are falsy. *)
Truthy(opt) == opt # None /\ opt[1] # 0

(* A fallback that applies to an absent value only, and takes 0 as given. *)
OrElse_AbsentOnly(opt, d) == IF opt # None THEN opt[1] ELSE d

(* Python `a or b` for an Optional[int] a and an int b. *)
OrElse(opt, d) == IF Truthy(opt) THEN opt[1] ELSE d

(***************************************************************************)
(* Secret Cipher.  Fernet is modelled by a small authenticated stream      *)
(* cipher with the same shape: a token carries a version byte, a fresh IV, *)
(* the ciphertext and a MAC computed under the process-wide key; decrypt   *)
(* checks the MAC before it returns any plaintext.                         *)
(***************************************************************************)
Bytes == 0 .. (ByteMod - 1)

KeyStream(key, iv, i) == (key + 2 * iv + i) % ByteMod

RECURSIVE SumSeq(_)
SumSeq(s) == IF s = <<>> THEN 0 ELSE Head(s) + SumSeq(Tail(s))

Mac(key, iv, ct) == (7 * key + 3 * iv + SumSeq(ct) + Len(ct)) % 16

FernetEncrypt(key, iv, data) ==
    LET ct == [i \in 1 .. Len(data) |-> (data[i] + KeyStream(key, iv, i)) % ByteMod]
    IN  [version |-> 128, iv |-> iv, ct |-> ct, hmac |-> Mac(key, iv, ct)]

(* A result is [ok |-> TRUE, value |-> v] or an exception [ok |-> FALSE, ...]. *)
Ok(v) == [ok |-> TRUE, value |-> v]
Raise(name) == [ok |-> FALSE, error |-> name]

FernetDecrypt(key, tok) ==
    IF tok.version # 128 \/ tok.hmac # Mac(key, tok.iv, tok.ct)
    THEN Raise("InvalidToken")
    ELSE Ok([i \in 1 .. Len(tok.ct) |->
               (tok.ct[i] + ByteMod - KeyStream(key, tok.iv, i)) % ByteMod])

(* An encryption under a key that decrypt_api_key does not use. *)
encrypt_api_key_OtherKey(api_key, iv) ==
    FernetEncrypt(ENCRYPTION_KEY + 1, iv, api_key)

encrypt_api_key(api_key, iv) == FernetEncrypt(ENCRYPTION_KEY, iv, api_key)

decrypt_api_key(encrypted_key) == FernetDecrypt(ENCRYPTION_KEY, encrypted_key)

(***************************************************************************)
(* Token Service.  A JWT is its claims plus the key it was signed with.    *)
(* str(subject) and the integer it is later compared with are kept apart.  *)
(***************************************************************************)
StrOf(n) == <<"str", n>>
IntOf(s) == s[2]

create_access_token(subject, expires_delta, utcnow) ==
    LET expire == IF Truthy(expires_delta)
                  THEN utcnow + expires_delta[1]
                  ELSE utcnow + ACCESS_TOKEN_EXPIRE_MINUTES
    IN  [exp |-> expire, sub |-> StrOf(subject), sig |-> SECRET_KEY, wellformed |-> TRUE]

(* jose.jwt.decode: structure, signature, then `exp < now` is expired. *)
verify_token(token, utcnow) ==
    IF ~token.wellformed \/ token.sig # SECRET_KEY \/ token.exp < utcnow
    THEN Raise("JWTError")
    ELSE Ok([exp |-> token.exp, sub |-> token.sub])

(***************************************************************************)
(* Password hashing (passlib bcrypt): a salted one-way digest.             *)
(***************************************************************************)
get_password_hash(password, salt) == [salt |-> salt, digest |-> <<"bcrypt", salt, password>>]

verify_password(plain_password, hashed_password) ==
    hashed_password.digest = <<"bcrypt", hashed_password.salt, plain_password>>

(***************************************************************************)
(* Service registry (app/core/config.py, API_SERVICES): required fields.   *)
(***************************************************************************)
API_SERVICES ==
    [tmdb         |-> [required_fields |-> <<"api_key">>],
     weather      |-> [required_fields |-> <<"api_key">>],
     disney_parks |-> [required_fields |-> <<"api_key", "client_id">>]]

(* The first required field, in list order, that the metadata lacks. *)
(* A validation that looks at the first required field only. *)
FirstMissing_FirstFieldOnly(fields, key_metadata) ==
    IF fields = <<>> THEN None
    ELSE IF Head(fields) \notin DOMAIN key_metadata THEN Some(Head(fields))
    ELSE None

RECURSIVE FirstMissing(_, _)
FirstMissing(fields, key_metadata) ==
    IF fields = <<>> THEN None
    ELSE IF Head(fields) \notin DOMAIN key_metadata THEN Some(Head(fields))
    ELSE FirstMissing(Tail(fields), key_metadata)

(***************************************************************************)
(* State: the tables, the clock, the requests in flight and the response   *)
(* most recently sent.                                                     *)
(***************************************************************************)
VARIABLES users, api_keys, api_key_usage, next_key_id, now, inflight, last

vars == <<users, api_keys, api_key_usage, next_key_id, now, inflight, last>>

(* os.urandom(16): an IV no stored ciphertext carries. *)
FreshIV(db) ==
    LET used == {k.encrypted_key.iv : k \in db.api_keys}
    IN  CHOOSE n \in 0 .. Cardinality(used) :
          n \notin used /\ \A m \in 0 .. (n - 1) : m \in used

(* The part of the store a handler reads and writes. *)
DB == [api_keys |-> api_keys, api_key_usage |-> api_key_usage, next_key_id |-> next_key_id]

(* api_keys rows matching a predicate on id and owner (query(...).filter(...)). *)
(* A lookup by id alone, without the owner filter. *)
KeysById_AnyOwner(db, key_id, user_id) ==
    {k \in db.api_keys : k.id = key_id}

KeysById(db, key_id, user_id) ==
    {k \in db.api_keys : k.id = key_id /\ k.owner_id = IntOf(user_id)}

(* APIKeyResponse: the columns the response model serialises. *)
APIKeyResponse(k) ==
    [id |-> k.id, service_name |-> k.service_name, key_metadata |-> k.key_metadata,
     rate_limit |-> k.rate_limit, is_active |-> k.is_active, expires_at |-> k.expires_at,
     last_used_at |-> k.last_used_at, usage_count |-> k.usage_count, owner_id |-> k.owner_id]

(* Every order in which a query without a total ORDER BY can return rows. *)
Orderings(S) ==
    {f \in [1 .. Cardinality(S) -> S] : \A i, j \in 1 .. Cardinality(S) : f[i] = f[j] => i = j}

(* A handler's result: the store it leaves and the response it gives.       *)
(* raised = TRUE is an exception that is not an HTTPException.              *)
Respond(db, status, detail, body) ==
    [db |-> db, status |-> status, raised |-> FALSE, detail |-> detail, body |-> body]

Raised(db, detail) ==
    [db |-> db, status |-> 500, raised |-> TRUE, detail |-> detail, body |-> <<>>]

(* A create that stamps an expiry one tick ahead. *)
create_api_key_WithExpiry(db, token, api_key_in, utcnow) ==
    LET token_data == verify_token(token, utcnow) IN
    IF ~token_data.ok THEN {Raised(db, "JWTError")}
    ELSE IF api_key_in.service_name \notin DOMAIN API_SERVICES
    THEN {Respond(db, 400, "Invalid service", <<>>)}
    ELSE IF FirstMissing(API_SERVICES[api_key_in.service_name].required_fields,
                         api_key_in.key_metadata) # None
    THEN {Respond(db, 400, "Missing required field", <<>>)}
    ELSE
      { LET db_api_key ==
              [id            |-> db.next_key_id,
               service_name  |-> api_key_in.service_name,
               encrypted_key |-> encrypt_api_key(api_key_in.key_metadata["api_key"], iv),
               key_metadata  |-> api_key_in.key_metadata,
               is_active     |-> TRUE,
               expires_at    |-> Some(utcnow + 1),
               last_used_at  |-> None,
               usage_count   |-> 0,
               rate_limit    |-> Some(OrElse(api_key_in.rate_limit, RATE_LIMIT_PER_MINUTE)),
               owner_id      |-> IntOf(token_data.value.sub)]
        IN Respond([db EXCEPT !.api_keys = @ \cup {db_api_key},
                              !.next_key_id = @ + 1],
                   200, "", <<APIKeyResponse(db_api_key)>>)
        : iv \in {FreshIV(db)} }

(***************************************************************************)
(* Credential-management endpoints (app/api/endpoints/api_keys.py).  Each  *)
(* yields the set of results the handler can produce.                      *)
(***************************************************************************)
create_api_key(db, token, api_key_in, utcnow) ==
    LET token_data == verify_token(token, utcnow) IN
    IF ~token_data.ok THEN {Raised(db, "JWTError")}
    ELSE IF api_key_in.service_name \notin DOMAIN API_SERVICES
    THEN {Respond(db, 400, "Invalid service", <<>>)}
    ELSE IF FirstMissing(API_SERVICES[api_key_in.service_name].required_fields,
                         api_key_in.key_metadata) # None
    THEN {Respond(db, 400, "Missing required field", <<>>)}
    ELSE
      { LET db_api_key ==
              [id            |-> db.next_key_id,
               service_name  |-> api_key_in.service_name,
               encrypted_key |-> encrypt_api_key(api_key_in.key_metadata["api_key"], iv),
               key_metadata  |-> api_key_in.key_metadata,
               is_active     |-> TRUE,
               expires_at    |-> None,
               last_used_at  |-> None,
               usage_count   |-> 0,
               rate_limit    |-> Some(OrElse(api_key_in.rate_limit, RATE_LIMIT_PER_MINUTE)),
               owner_id      |-> IntOf(token_data.value.sub)]
        IN Respond([db EXCEPT !.api_keys = @ \cup {db_api_key},
                              !.next_key_id = @ + 1],
                   200, "", <<APIKeyResponse(db_api_key)>>)
        : iv \in {FreshIV(db)} }

get_api_keys(db, token, service_name, utcnow) ==
    LET token_data == verify_token(token, utcnow) IN
    IF ~token_data.ok THEN {Raised(db, "JWTError")}
    ELSE
      LET owned == {k \in db.api_keys : k.owner_id = IntOf(token_data.value.sub)}
          rows  == IF service_name # None /\ service_name[1] # ""
                   THEN {k \in owned : k.service_name = service_name[1]}
                   ELSE owned
      IN {Respond(db, 200, "", [i \in DOMAIN o |-> APIKeyResponse(o[i])]) : o \in Orderings(rows)}

get_api_key(db, token, key_id, utcnow) ==
    LET token_data == verify_token(token, utcnow) IN
    IF ~token_data.ok THEN {Raised(db, "JWTError")}
    ELSE
      LET found == KeysById(db, key_id, token_data.value.sub) IN
      IF found = {} THEN {Respond(db, 404, "API key not found", <<>>)}
      ELSE {Respond(db, 200, "", <<APIKeyResponse(k)>>) : k \in found}

update_api_key(db, token, key_id, api_key_in, utcnow) ==
    LET token_data == verify_token(token, utcnow) IN
    IF ~token_data.ok THEN {Raised(db, "JWTError")}
    ELSE
      LET found == KeysById(db, key_id, token_data.value.sub) IN
      IF found = {} THEN {Respond(db, 404, "API key not found", <<>>)}
      ELSE
        LET api_key == CHOOSE k \in found : TRUE
            (* `if api_key_in.key_metadata:` -- None and the empty dict are falsy *)
            replace == api_key_in.key_metadata # None
                       /\ DOMAIN api_key_in.key_metadata[1] # {}
            meta    == api_key_in.key_metadata[1]
        IN
        IF replace /\ api_key.service_name \notin DOMAIN API_SERVICES
        THEN {Raised(db, "KeyError")}
        ELSE IF replace /\ FirstMissing(API_SERVICES[api_key.service_name].required_fields,
                                        meta) # None
        THEN {Respond(db, 400, "Missing required field", <<>>)}
        ELSE
          { LET k1 == IF replace
                      THEN [api_key EXCEPT !.encrypted_key = encrypt_api_key(meta["api_key"], iv),
                                           !.key_metadata = meta]
                      ELSE api_key
                k2 == IF api_key_in.is_active # None
                      THEN [k1 EXCEPT !.is_active = api_key_in.is_active[1]]
                      ELSE k1
                k3 == IF Truthy(api_key_in.rate_limit)
                      THEN [k2 EXCEPT !.rate_limit = Some(api_key_in.rate_limit[1])]
                      ELSE k2
            IN Respond([db EXCEPT !.api_keys = (@ \ {api_key}) \cup {k3}],
                       200, "", <<APIKeyResponse(k3)>>)
            : iv \in {FreshIV(db)} }

(* A delete that cascades to the usage rows of the credential. *)
delete_api_key_Cascade(db, token, key_id, utcnow) ==
    LET token_data == verify_token(token, utcnow) IN
    IF ~token_data.ok THEN {Raised(db, "JWTError")}
    ELSE
      LET found == KeysById(db, key_id, token_data.value.sub) IN
      IF found = {} THEN {Respond(db, 404, "API key not found", <<>>)}
      ELSE
        {Respond([db EXCEPT
                    !.api_keys = @ \ found,
                    !.api_key_usage =
                        SelectSeq(@, LAMBDA usage : usage.api_key_id # Some(key_id))],
                 200, "API key deleted successfully", <<>>)}

(* db.delete(api_key): the row goes; usage_logs has no delete cascade, so    *)
(* the unit of work sets api_key_id of the rows that referenced it to NULL.  *)
delete_api_key(db, token, key_id, utcnow) ==
    LET token_data == verify_token(token, utcnow) IN
    IF ~token_data.ok THEN {Raised(db, "JWTError")}
    ELSE
      LET found == KeysById(db, key_id, token_data.value.sub) IN
      IF found = {} THEN {Respond(db, 404, "API key not found", <<>>)}
      ELSE
        {Respond([db EXCEPT
                    !.api_keys = @ \ found,
                    !.api_key_usage =
                        [i \in DOMAIN @ |->
                           IF @[i].api_key_id = Some(key_id)
                           THEN [@[i] EXCEPT !.api_key_id = None]
                           ELSE @[i]]],
                 200, "API key deleted successfully", <<>>)}

(* order_by(timestamp.desc()): rows of equal timestamp come in any order. *)
get_api_key_usage(db, token, key_id, utcnow) ==
    LET token_data == verify_token(token, utcnow) IN
    IF ~token_data.ok THEN {Raised(db, "JWTError")}
    ELSE
      LET found == KeysById(db, key_id, token_data.value.sub) IN
      IF found = {} THEN {Respond(db, 404, "API key not found", <<>>)}
      ELSE
        LET usage_logs == {db.api_key_usage[i] : i \in
                             {j \in DOMAIN db.api_key_usage :
                                db.api_key_usage[j].api_key_id = Some(key_id)}}
        IN {Respond(db, 200, "", o) :
              o \in {p \in Orderings(usage_logs) :
                       \A i, j \in DOMAIN p : i < j => p[i].timestamp >= p[j].timestamp}}

(***************************************************************************)
(* Login (app/api/endpoints/users.py).  str(str(user.id)) = str(user.id).  *)
(***************************************************************************)
login(db, accounts, form_data, utcnow) ==
    LET matching == {u \in DOMAIN accounts : accounts[u].email = form_data.username} IN
    IF matching = {}
       \/ \A u \in matching : ~verify_password(form_data.password, accounts[u].hashed_password)
    THEN {Respond(db, 401, "Incorrect email or password", <<>>)}
    ELSE
      LET user == CHOOSE u \in matching : TRUE IN
      {Respond(db, 200, "",
               <<[access_token |-> create_access_token(user, Some(ACCESS_TOKEN_EXPIRE_MINUTES),
                                                       utcnow),
                  token_type |-> "bearer"]>>)}

(***************************************************************************)
(* Handlers behind the protected prefix that are not credential management.*)
(* A proxied-service route answers with what the third-party call gives,   *)
(* or raises; GET /health of app/main.py always answers 200.               *)
(***************************************************************************)
proxied_service(db) == {Respond(db, 200, "", <<>>), Raised(db, "ClientError")}

health_check(db) == {Respond(db, 200, "healthy", <<>>)}

(***************************************************************************)
(* Routes.  A path is the sequence of its segments; str.startswith is the  *)
(* prefix test on it.  include_router(..., prefix="/api") puts every       *)
(* router of the application under /api.                                   *)
(***************************************************************************)
StartsWith(path, prefix) ==
    Len(path) >= Len(prefix) /\ SubSeq(path, 1, Len(prefix)) = prefix

PathOf(op) ==
    CASE op = "create"  -> <<"api", "keys">>
      [] op = "list"    -> <<"api", "keys">>
      [] op = "get"     -> <<"api", "keys", "{key_id}">>
      [] op = "update"  -> <<"api", "keys", "{key_id}">>
      [] op = "delete"  -> <<"api", "keys", "{key_id}">>
      [] op = "usage"   -> <<"api", "keys", "{key_id}", "usage">>
      [] op = "login"   -> <<"api", "token">>
      [] op = "service" -> <<"api", "tmdb", "search">>
      [] op = "health"  -> <<"health">>
      [] op = "rate_limits" -> <<"api", "monitor", "rate-limits", "{api_key_id}">>
      [] op = "search"  -> <<"api", "tmdb", "search">>
      [] op = "deactivate" -> <<"api", "users", "me">>

(***************************************************************************)
(* Request Interceptor (app/middleware/api_key_middleware.py).             *)
(***************************************************************************)
(* Lines 67-73: the two early returns. *)
SkipsMiddleware(path) ==
    \/ ~StartsWith(path, <<"api">>)
    \/ StartsWith(path, <<"api", "keys">>)

RecentUsage(usage, key_id, since) ==
    Cardinality({i \in DOMAIN usage :
                   usage[i].api_key_id = Some(key_id) /\ usage[i].timestamp >= since})

(* A limit check that admits one request too many. *)
check_rate_limit_Inclusive(api_key, db, utcnow) ==
    LET one_minute_ago == utcnow - RATE_LIMIT_WINDOW
        recent_usage   == RecentUsage(db.api_key_usage, api_key.id, one_minute_ago)
    IN  recent_usage <= OrElse(api_key.rate_limit, RATE_LIMIT_PER_MINUTE)

(* A limit check that counts every record of the credential, whatever its  *)
(* age.                                                                    *)
check_rate_limit_AllTime(api_key, db, utcnow) ==
    LET recent_usage ==
          Cardinality({i \in DOMAIN db.api_key_usage :
                         db.api_key_usage[i].api_key_id = Some(api_key.id)})
    IN  recent_usage < OrElse(api_key.rate_limit, RATE_LIMIT_PER_MINUTE)

(* A limit check whose window leaves out the records written exactly one   *)
(* window ago.                                                             *)
check_rate_limit_OpenWindow(api_key, db, utcnow) ==
    LET one_minute_ago == utcnow - RATE_LIMIT_WINDOW
        recent_usage   == RecentUsage(db.api_key_usage, api_key.id, one_minute_ago + 1)
    IN  recent_usage < OrElse(api_key.rate_limit, RATE_LIMIT_PER_MINUTE)

check_rate_limit(api_key, db, utcnow) ==
    LET one_minute_ago == utcnow - RATE_LIMIT_WINDOW
        recent_usage   == RecentUsage(db.api_key_usage, api_key.id, one_minute_ago)
    IN  recent_usage < OrElse(api_key.rate_limit, RATE_LIMIT_PER_MINUTE)

Reject(status, detail) == [kind |-> "reject", status |-> status, detail |-> detail]
Admit(api_key) == [kind |-> "admit", api_key |-> api_key]

(* An interceptor that consults the rate limit before the expiry. *)
Authenticate_LimitBeforeExpiry(request, db, utcnow) ==
    IF request.header = None
    THEN {Reject(401, "API key is required")}
    ELSE
      LET matching == {k \in db.api_keys :
                         k.encrypted_key = request.header[1] /\ k.is_active}
      IN
      IF matching = {} THEN {Reject(401, "Invalid API key")}
      ELSE
        { IF ~check_rate_limit(api_key, db, utcnow)
          THEN Reject(429, "Rate limit exceeded")
          ELSE IF api_key.expires_at # None /\ api_key.expires_at[1] <= utcnow
          THEN Reject(401, "API key has expired")
          ELSE Admit(api_key)
          : api_key \in matching }

(* An interceptor that consults the rate limit before it looks at is_active. *)
Authenticate_LimitBeforeActive(request, db, utcnow) ==
    IF request.header = None
    THEN {Reject(401, "API key is required")}
    ELSE
      LET matching == {k \in db.api_keys : k.encrypted_key = request.header[1]}
      IN
      IF matching = {} THEN {Reject(401, "Invalid API key")}
      ELSE
        { IF ~check_rate_limit(api_key, db, utcnow)
          THEN Reject(429, "Rate limit exceeded")
          ELSE IF ~api_key.is_active
          THEN Reject(401, "Invalid API key")
          ELSE IF api_key.expires_at # None /\ api_key.expires_at[1] <= utcnow
          THEN Reject(401, "API key has expired")
          ELSE Admit(api_key)
          : api_key \in matching }

(* Lines 79-118: the outcomes of the try block before call_next; .first()   *)
(* without an order returns any of the matching rows.                        *)
Authenticate(request, db, utcnow) ==
    IF request.header = None
    THEN {Reject(401, "API key is required")}
    ELSE
      LET matching == {k \in db.api_keys :
                         k.encrypted_key = request.header[1] /\ k.is_active}
      IN
      IF matching = {} THEN {Reject(401, "Invalid API key")}
      ELSE
        { IF api_key.expires_at # None /\ api_key.expires_at[1] <= utcnow
          THEN Reject(401, "API key has expired")
          ELSE IF ~check_rate_limit(api_key, db, utcnow)
          THEN Reject(429, "Rate limit exceeded")
          ELSE Admit(api_key)
          : api_key \in matching }

(* track_api_key_usage.  api_key is the object loaded before call_next: the *)
(* increment starts from the usage_count it was loaded with.  The commit    *)
(* fails when the row is gone, and then nothing is written.                 *)
track_api_key_usage(db, request, api_key, response_status, response_time, error_message, utcnow) ==
    LET usage == [id              |-> Len(db.api_key_usage) + 1,
                  api_key_id      |-> Some(api_key.id),
                  timestamp       |-> utcnow,
                  endpoint        |-> PathOf(request.op),
                  response_status |-> Some(response_status),
                  response_time   |-> response_time,
                  error_message   |-> error_message]
        rows  == {k \in db.api_keys : k.id = api_key.id}
    IN
    IF rows = {} THEN Raise("StaleDataError")
    ELSE Ok([db EXCEPT
               !.api_keys = (@ \ rows) \cup
                   {[k EXCEPT !.last_used_at = Some(utcnow),
                              !.usage_count = api_key.usage_count + 1] : k \in rows},
               !.api_key_usage = Append(@, usage)])

(***************************************************************************)
(* Inputs of the requests.                                                 *)
(***************************************************************************)
ServiceInputs == {"tmdb", "disney_parks", "espn"}

MetadataInputs ==
    {<<>>, [client_id |-> "c"], [api_key |-> <<>>], [api_key |-> <<1, 2>>, client_id |-> "c"]}

RateLimitInputs == {None, Some(0), Some(2)}

ValidFor(service_name, key_metadata) ==
    /\ service_name \in DOMAIN API_SERVICES
    /\ \A i \in DOMAIN API_SERVICES[service_name].required_fields :
         API_SERVICES[service_name].required_fields[i] \in DOMAIN key_metadata

CreateInputs ==
    {x \in [service_name : ServiceInputs, key_metadata : MetadataInputs,
            rate_limit : RateLimitInputs] :
       \/ x.rate_limit = None
       \/ x.service_name = "tmdb" /\ x.key_metadata = [api_key |-> <<>>]}

UpdateInputs ==
    {[key_metadata |-> Some(m), is_active |-> None, rate_limit |-> None] : m \in MetadataInputs}
      \cup {[key_metadata |-> None, is_active |-> Some(b), rate_limit |-> None] :
              b \in BOOLEAN}
      \cup {[key_metadata |-> None, is_active |-> None, rate_limit |-> rl] :
              rl \in RateLimitInputs}
      \cup {[key_metadata |-> Some([api_key |-> <<>>]),
             is_active |-> Some(FALSE), rate_limit |-> Some(2)]}

(* The narrower inputs of the specifications that exercise the interceptor. *)
GateCreateInputs ==
    {[service_name |-> "tmdb", key_metadata |-> [api_key |-> <<1, 2>>, client_id |-> "c"],
      rate_limit |-> rl] : rl \in {Some(1), Some(2)}}

GateUpdateInputs ==
    {[key_metadata |-> None, is_active |-> Some(b), rate_limit |-> None] : b \in BOOLEAN}

Accounts ==
    [u \in {1, 2} |->
       [email           |-> IF u = 1 THEN "admin@disney-portfolio.com" ELSE "guest@example.com",
        hashed_password |-> get_password_hash(IF u = 1 THEN "admin123" ELSE "guest123", u),
        is_active       |-> TRUE,
        is_superuser    |-> (u = 1)]]

LoginInputs ==
    {[username |-> "admin@disney-portfolio.com", password |-> "admin123"],
     [username |-> "admin@disney-portfolio.com", password |-> "guest123"]}

(* Bearer tokens a caller can present: one signed for each account, one    *)
(* signed with another key.                                                *)
TokenFor(u) == create_access_token(u, None, 0)

ForgedToken == [TokenFor(1) EXCEPT !.sig = SECRET_KEY + 1]

TokenInputs == {TokenFor(u) : u \in DOMAIN Accounts} \cup {ForgedToken}

GateTokenInputs == {TokenFor(1)}

(* X-API-Key values: absent, the stored value of a credential, or a value   *)
(* no credential has.                                                       *)
UnknownHeader == [version |-> 128, iv |-> 0, ct |-> <<>>, hmac |-> 99]

HeaderInputs(keys) ==
    {None, Some(UnknownHeader)} \cup {Some(k.encrypted_key) : k \in keys}

BypassHeaderInputs == {None, Some(UnknownHeader)}

KeyIdInputs == 1 .. MaxKeys

NoResponse ==
    [status |-> 0, detail |-> "", body |-> <<>>, raised |-> FALSE,
     api_key_id |-> None, op |-> "none", request |-> [op |-> "none"], by |-> "none"]

(***************************************************************************)
(* MonitoringService (core/monitoring.py).  Each operation is a query on   *)
(* the two tables; its outcome is Ok(value) or Raise(exception).  The      *)
(* clock counts minutes, so a window of `days` days is days * 1440.  An    *)
(* average is kept as the fraction <<numerator, denominator>>.             *)
(***************************************************************************)
MinutesPerDay == 1440

(* sum(f[x] for x in S) *)
RECURSIVE SumOver(_, _)
SumOver(f, S) ==
    IF S = {} THEN 0
    ELSE LET x == CHOOSE y \in S : TRUE IN f[x] + SumOver(f, S \ {x})

(* The same sum for fractions f[x] = <<numerator, denominator>>. *)
RECURSIVE SumFractions(_, _)
SumFractions(f, S) ==
    IF S = {} THEN <<0, 1>>
    ELSE LET x    == CHOOSE y \in S : TRUE
             rest == SumFractions(f, S \ {x})
         IN  <<f[x][1] * rest[2] + rest[1] * f[x][2], f[x][2] * rest[2]>>

(* The rows an inner join with api_keys on api_key_id keeps for a service. *)
JoinedWithService(db, rows, service_name) ==
    {i \in rows : \E k \in db.api_keys :
                    /\ db.api_key_usage[i].api_key_id = Some(k.id)
                    /\ k.service_name = service_name}

(* Statistics over the rows that still join a credential: the records of   *)
(* deleted credentials are left out.                                       *)
get_usage_statistics_JoinedOnly(db, service_name, days, utcnow) ==
    LET start_date == utcnow - days * MinutesPerDay
        usage      == db.api_key_usage
        rows       == {i \in DOMAIN usage :
                         /\ usage[i].timestamp >= start_date
                         /\ \E k \in db.api_keys :
                              /\ usage[i].api_key_id = Some(k.id)
                              /\ service_name # None => k.service_name = service_name[1]}
        groups     == {usage[i].api_key_id : i \in rows}
    IN  Ok([period_days       |-> days,
            total_requests    |-> Cardinality(rows),
            total_errors      |-> Cardinality({i \in rows : usage[i].error_message # None}),
            avg_response_time |-> <<0, 1>>,
            active_keys       |-> Cardinality(groups)])

get_usage_statistics(db, service_name, days, utcnow) ==
    LET start_date == utcnow - days * MinutesPerDay
        usage      == db.api_key_usage
        in_window  == {i \in DOMAIN usage : usage[i].timestamp >= start_date}
        rows       == IF service_name # None /\ service_name[1] # ""
                      THEN JoinedWithService(db, in_window, service_name[1])
                      ELSE in_window
        (* GROUP BY api_key_id: the rows with NULL form one group *)
        groups     == {usage[i].api_key_id : i \in rows}
        Group(g)   == {i \in rows : usage[i].api_key_id = g}
        request_count == [g \in groups |-> Cardinality(Group(g))]
        error_count   == [g \in groups |->
                            Cardinality({i \in Group(g) : usage[i].error_message # None})]
        response_time == [i \in rows |-> usage[i].response_time]
        avg_response_time == [g \in groups |->
                                <<SumOver(response_time, Group(g)), request_count[g]>>]
        sum_of_avgs   == SumFractions(avg_response_time, groups)
    IN  Ok([period_days       |-> days,
            total_requests    |-> SumOver(request_count, groups),
            total_errors      |-> SumOver(error_count, groups),
            avg_response_time |-> IF groups # {}
                                  THEN <<sum_of_avgs[1], sum_of_avgs[2] * Cardinality(groups)>>
                                  ELSE <<0, 1>>,
            active_keys       |-> Cardinality(groups)])


(* The orders in which ORDER BY timestamp DESC can return the rows: rows   *)
(* with equal timestamps come in either order.                             *)
OrderedByTimestampDesc(usage, rows) ==
    {s \in [1 .. Cardinality(rows) -> rows] :
       /\ \A i, j \in DOMAIN s : i # j => s[i] # s[j]
       /\ \A i, j \in DOMAIN s : i < j => usage[s[i]].timestamp >= usage[s[j]].timestamp}

(* error.api_key of a usage row: the credential its api_key_id names, or   *)
(* None when the column is NULL or names no row.                           *)
RelatedKey(db, row) ==
    LET keys == {k \in db.api_keys : row.api_key_id = Some(k.id)}
    IN  IF keys = {} THEN None ELSE Some(CHOOSE k \in keys : TRUE)

(* The set of outcomes of get_error_report, one per order the query can    *)
(* return.  The comprehension reads error.api_key.service_name, which       *)
(* raises AttributeError on a row without a credential.                    *)
get_error_report(db, service_name, days, utcnow) ==
    LET start_date == utcnow - days * MinutesPerDay
        usage      == db.api_key_usage
        filtered   == {i \in DOMAIN usage : /\ usage[i].timestamp >= start_date
                                            /\ usage[i].error_message # None}
        rows       == IF service_name # None /\ service_name[1] # ""
                      THEN JoinedWithService(db, filtered, service_name[1])
                      ELSE filtered
    IN  { IF \E i \in rows : RelatedKey(db, usage[i]) = None
          THEN Raise("AttributeError")
          ELSE Ok([n \in DOMAIN errors |->
                     LET error == usage[errors[n]] IN
                     [timestamp |-> error.timestamp,
                      service   |-> RelatedKey(db, error)[1].service_name,
                      endpoint  |-> error.endpoint,
                      status    |-> error.response_status,
                      error     |-> error.error_message]])
          : errors \in OrderedByTimestampDesc(usage, rows) }

(* get_rate_limit_status.  The window is timedelta(minutes=1), one unit of *)
(* the clock.  api_key.rate_limit is used as stored: the subtraction       *)
(* raises TypeError when the column is NULL.                               *)
get_rate_limit_status(db, api_key_id, utcnow) ==
    LET keys == {k \in db.api_keys : k.id = api_key_id} IN
    IF keys = {} THEN Ok([error |-> "API key not found"])
    ELSE LET api_key        == CHOOSE k \in keys : TRUE
             one_minute_ago == utcnow - 1
             recent_usage   == RecentUsage(db.api_key_usage, api_key_id, one_minute_ago)
         IN  IF api_key.rate_limit = None THEN Raise("TypeError")
             ELSE Ok([service       |-> api_key.service_name,
                      rate_limit    |-> api_key.rate_limit,
                      current_usage |-> recent_usage,
                      remaining     |-> IF api_key.rate_limit[1] - recent_usage > 0
                                        THEN api_key.rate_limit[1] - recent_usage
                                        ELSE 0,
                      reset_at      |-> one_minute_ago + 1])

(* get_system_health.  db_alive says whether db.execute("SELECT 1")        *)
(* returns; the except clause turns its failure into "unhealthy".          *)
get_system_health(db_alive, utcnow) ==
    LET db_status == IF db_alive THEN "healthy" ELSE "unhealthy" IN
    Ok([status     |-> IF db_status = "healthy" THEN "healthy" ELSE "unhealthy",
        timestamp  |-> utcnow,
        components |-> [database |-> db_status]])

(***************************************************************************)
(* Routes that resolve the caller from the bearer token                    *)
(* (api/endpoints/users.py: get_current_user, get_current_active_user).    *)
(***************************************************************************)
Denied(status, detail) == [ok |-> FALSE, status |-> status, detail |-> detail]

(* Every exception in the try block, the 404 for a missing user included,  *)
(* becomes 401.                                                            *)
get_current_user(accounts, token, utcnow) ==
    LET payload == verify_token(token, utcnow) IN
    IF ~payload.ok \/ IntOf(payload.value.sub) \notin DOMAIN accounts
    THEN Denied(401, "Could not validate credentials")
    ELSE Ok(IntOf(payload.value.sub))

get_current_active_user(accounts, token, utcnow) ==
    LET current_user == get_current_user(accounts, token, utcnow) IN
    IF ~current_user.ok THEN current_user
    ELSE IF ~accounts[current_user.value].is_active THEN Denied(400, "Inactive user")
    ELSE current_user

(* PUT /api/users/me with the body {"is_active": false} (users.py).         *)
update_current_user(accounts, token, utcnow) ==
    LET current_user == get_current_active_user(accounts, token, utcnow) IN
    IF ~current_user.ok
    THEN [users |-> accounts, status |-> current_user.status, detail |-> current_user.detail]
    ELSE [users |-> [accounts EXCEPT ![current_user.value].is_active = FALSE],
          status |-> 200, detail |-> ""]

(* GET /api/monitor/rate-limits/{api_key_id} (monitor.py): any active      *)
(* account gets the answer of MonitoringService.get_rate_limit_status.     *)
monitor_get_rate_limit_status(db, accounts, token, api_key_id, utcnow) ==
    LET current_user == get_current_active_user(accounts, token, utcnow) IN
    IF ~current_user.ok
    THEN {Respond(db, current_user.status, current_user.detail, <<>>)}
    ELSE LET outcome == get_rate_limit_status(db, api_key_id, utcnow) IN
         IF outcome.ok THEN {Respond(db, 200, "", <<outcome.value>>)}
         ELSE {Raised(db, outcome.error)}

(* get_service (services.py): the first active credential of the caller    *)
(* for the service; .first() without an order returns any of them.         *)
get_service(db, service_name, user) ==
    {k \in db.api_keys :
       k.owner_id = user /\ k.service_name = service_name /\ k.is_active}

(* GET /api/tmdb/search (services.py).  The body stands for the outbound   *)
(* call: the credential whose stored key TMDBService was built with.       *)
search_disney_content(db, accounts, token, utcnow) ==
    LET current_user == get_current_active_user(accounts, token, utcnow) IN
    IF ~current_user.ok
    THEN {Respond(db, current_user.status, current_user.detail, <<>>)}
    ELSE IF get_service(db, "tmdb", current_user.value) = {}
    THEN {Respond(db, 404, "No active API key found for tmdb", <<>>)}
    ELSE UNION {{Respond(db, 200, "", <<[outbound_key_id |-> k.id]>>),
                 [Raised(db, "ClientError") EXCEPT !.body = <<[outbound_key_id |-> k.id]>>]}
                : k \in get_service(db, "tmdb", current_user.value)}

(* The downstream handler call_next reaches for a request. *)
Handle(request, db, accounts, utcnow) ==
    CASE request.op = "create"  -> create_api_key(db, request.token, request.api_key_in, utcnow)
      [] request.op = "list"    -> get_api_keys(db, request.token, request.service_name, utcnow)
      [] request.op = "get"     -> get_api_key(db, request.token, request.key_id, utcnow)
      [] request.op = "update"  -> update_api_key(db, request.token, request.key_id,
                                                  request.api_key_in, utcnow)
      [] request.op = "delete"  -> delete_api_key(db, request.token, request.key_id, utcnow)
      [] request.op = "usage"   -> get_api_key_usage(db, request.token, request.key_id, utcnow)
      [] request.op = "login"   -> login(db, accounts, request.form_data, utcnow)
      [] request.op = "service" -> proxied_service(db)
      [] request.op = "health"  -> health_check(db)
      [] request.op = "rate_limits" ->
           monitor_get_rate_limit_status(db, accounts, request.token, request.key_id, utcnow)
      [] request.op = "search"  -> search_disney_content(db, accounts, request.token, utcnow)

(***************************************************************************)
(* APIKeyMiddleware.__call__ up to and including call_next for a request   *)
(* that is bypassed or rejected, and up to call_next for an admitted one.  *)
(* A rejected request leaves the finally block without a write:            *)
(* request.state.api_key is set only once the rate limit has passed.       *)
(***************************************************************************)
RequestCapped(request, max_inflight, max_usage) ==
    /\ IF SkipsMiddleware(PathOf(request.op))
       THEN \E r \in Handle(request, DB, users, now) :
              /\ api_keys' = r.db.api_keys
              /\ api_key_usage' = r.db.api_key_usage
              /\ next_key_id' = r.db.next_key_id
              /\ last' = [status |-> r.status, detail |-> r.detail, body |-> r.body,
                          raised |-> r.raised, api_key_id |-> None,
                          op |-> request.op, request |-> request, by |-> "handler"]
              /\ UNCHANGED inflight
       ELSE \E out \in Authenticate(request, DB, now) :
              IF out.kind = "reject"
              THEN /\ last' = [status |-> out.status, detail |-> out.detail,
                               body |-> <<>>, raised |-> FALSE, api_key_id |-> None,
                               op |-> request.op, request |-> request,
                               by |-> "interceptor"]
                   /\ UNCHANGED <<api_keys, api_key_usage, next_key_id, inflight>>
              ELSE /\ BagCardinality(inflight) < max_inflight
                   /\ Len(api_key_usage) + BagCardinality(inflight) < max_usage
                   /\ inflight' = inflight (+) SetToBag(
                                     {[api_key |-> [id |-> out.api_key.id,
                                                    usage_count |-> out.api_key.usage_count],
                                       request |-> request,
                                       start_time |-> now]})
                   /\ UNCHANGED <<api_keys, api_key_usage, next_key_id, last>>
    /\ UNCHANGED <<users, now>>

(* The same with the model's bounds on the calls in flight and on the      *)
(* length of the ledger.                                                   *)
Request(request) == RequestCapped(request, MaxInFlight, MaxUsage)

(***************************************************************************)
(* The rest of __call__ for an admitted request: call_next returns or      *)
(* raises, then the finally block records the usage.                       *)
(***************************************************************************)
Complete(call) ==
    /\ BagIn(call, inflight)
    /\ \E r \in Handle(call.request, DB, users, now) :
         LET error_message == IF r.raised THEN Some(r.detail) ELSE None
             tracked == track_api_key_usage(r.db, call.request, call.api_key, r.status,
                                            now - call.start_time, error_message, now)
             db1 == IF tracked.ok THEN tracked.value ELSE r.db
         IN /\ api_keys' = db1.api_keys
            /\ api_key_usage' = db1.api_key_usage
            /\ next_key_id' = db1.next_key_id
            /\ last' = [status |-> IF tracked.ok THEN r.status ELSE 500,
                        detail |-> IF tracked.ok THEN r.detail ELSE tracked.error,
                        body |-> IF tracked.ok THEN r.body ELSE <<>>,
                        raised |-> r.raised \/ ~tracked.ok,
                        api_key_id |-> Some(call.api_key.id),
                        op |-> call.request.op,
                        request |-> call.request,
                        by |-> "handler"]
    /\ inflight' = inflight (-) SetToBag({call})
    /\ UNCHANGED <<users, now>>

(***************************************************************************)
(* The requests a client can send, one action per route.  T is the set of  *)
(* bearer tokens, C and U the bodies, cap the number of credentials the    *)
(* model lets be created.                                                  *)
(***************************************************************************)
PostKeys(H, T, C, cap) ==
    \E h \in H, t \in T, x \in C :
      /\ next_key_id <= cap
      /\ Request([token |-> t, api_key_in |-> x, op |-> "create", header |-> h])

GetKeys(H, T) ==
    \E h \in H, t \in T,
       sn \in {None} \cup {Some(x) : x \in ServiceInputs} :
      Request([token |-> t, service_name |-> sn, op |-> "list", header |-> h])

GetKey(H, T) ==
    \E h \in H, t \in T, id \in KeyIdInputs :
      Request([token |-> t, key_id |-> id, op |-> "get", header |-> h])

PutKey(H, T, U) ==
    \E h \in H, t \in T, id \in KeyIdInputs, x \in U :
      Request([token |-> t, key_id |-> id, api_key_in |-> x, op |-> "update", header |-> h])

DeleteKey(H, T) ==
    \E h \in H, t \in T, id \in KeyIdInputs :
      Request([token |-> t, key_id |-> id, op |-> "delete", header |-> h])

GetKeyUsage(H, T) ==
    \E h \in H, t \in T, id \in KeyIdInputs :
      Request([token |-> t, key_id |-> id, op |-> "usage", header |-> h])

PostToken ==
    \E h \in HeaderInputs(api_keys), f \in LoginInputs :
      Request([form_data |-> f, op |-> "login", header |-> h])

ServiceCall ==
    \E h \in HeaderInputs(api_keys) :
      Request([op |-> "service", header |-> h])

GetHealth ==
    \E h \in BypassHeaderInputs :
      Request([op |-> "health", header |-> h])

Finish == \E call \in BagToSet(inflight) : Complete(call)

Tick ==
    /\ now < MaxTime
    /\ now' = now + 1
    /\ UNCHANGED <<users, api_keys, api_key_usage, next_key_id, inflight, last>>

(***************************************************************************)
(* Spec: the gateway from an empty credential store, with the traffic      *)
(* through the interceptor.                                                *)
(***************************************************************************)
Init ==
    /\ users = Accounts
    /\ api_keys = {}
    /\ api_key_usage = <<>>
    /\ next_key_id = 1
    /\ now = 0
    /\ inflight = EmptyBag
    /\ last = NoResponse

Next ==
    \/ Tick
    \/ PostKeys(BypassHeaderInputs, GateTokenInputs, GateCreateInputs, MaxGateKeys)
    \/ PutKey(BypassHeaderInputs, GateTokenInputs, GateUpdateInputs)
    \/ DeleteKey(BypassHeaderInputs, GateTokenInputs)
    \/ GetKeyUsage(BypassHeaderInputs, GateTokenInputs)
    \/ PostToken
    \/ ServiceCall
    \/ Finish

Spec == Init /\ [][Next]_vars

(***************************************************************************)
(* SpecKeys: the credential-management surface with its full inputs, from  *)
(* a store that holds one credential of account 1 used once (the state     *)
(* Spec reaches by POST /keys, one proxied call and its completion).       *)
(***************************************************************************)
SeedKey ==
    [id            |-> 1,
     service_name  |-> "tmdb",
     encrypted_key |-> encrypt_api_key(<<1, 2>>, 0),
     key_metadata  |-> [api_key |-> <<1, 2>>, client_id |-> "c"],
     is_active     |-> TRUE,
     expires_at    |-> None,
     last_used_at  |-> Some(0),
     usage_count   |-> 1,
     rate_limit    |-> Some(2),
     owner_id      |-> 1]

SeedUsage ==
    [id              |-> 1,
     api_key_id      |-> Some(1),
     timestamp       |-> 0,
     endpoint        |-> PathOf("service"),
     response_status |-> Some(200),
     response_time   |-> 0,
     error_message   |-> None]

InitKeys ==
    /\ users = Accounts
    /\ api_keys = {SeedKey}
    /\ api_key_usage = <<SeedUsage>>
    /\ next_key_id = 2
    /\ now = 0
    /\ inflight = EmptyBag
    /\ last = NoResponse

NextKeys ==
    \/ PostKeys({None}, TokenInputs, CreateInputs, MaxKeys)
    \/ GetKeys({None}, TokenInputs)
    \/ GetKey({None}, TokenInputs)
    \/ PutKey({None}, TokenInputs, UpdateInputs)
    \/ DeleteKey({None}, TokenInputs)
    \/ GetKeyUsage({None}, TokenInputs)
    \/ GetHealth

SpecKeys == InitKeys /\ [][NextKeys]_vars

(***************************************************************************)
(* SpecExpiry: the interceptor over a credential whose expires_at column   *)
(* is set (no endpoint writes that column; the row is as a database        *)
(* administrator leaves it).                                               *)
(***************************************************************************)
InitExpiry ==
    /\ users = Accounts
    /\ \E e \in 1 .. MaxTime, rl \in {Some(1), Some(2)} :
         api_keys = {[SeedKey EXCEPT !.expires_at = Some(e), !.rate_limit = rl,
                                     !.last_used_at = None, !.usage_count = 0]}
    /\ api_key_usage = <<>>
    /\ next_key_id = 2
    /\ now = 0
    /\ inflight = EmptyBag
    /\ last = NoResponse

NextExpiry ==
    \/ Tick
    \/ PutKey(BypassHeaderInputs, GateTokenInputs, GateUpdateInputs)
    \/ PostToken
    \/ ServiceCall
    \/ Finish

SpecExpiry == InitExpiry /\ [][NextExpiry]_vars

(***************************************************************************)
(* Vocabulary of the properties.                                           *)
(***************************************************************************)
InterceptedOps == {"login", "service"}

(* The requests to protected routes that present credential k. *)
RequestsUnder(k) ==
    {[op |-> "service", header |-> Some(k.encrypted_key)]}
      \cup {[form_data |-> f, op |-> "login", header |-> Some(k.encrypted_key)] :
              f \in LoginInputs}

(* The requests to protected routes that present header h. *)
RequestsWith(h) ==
    {[op |-> "service", header |-> h]}
      \cup {[form_data |-> f, op |-> "login", header |-> h] : f \in LoginInputs}

(* This step answers a request the interceptor rejected. *)
RejectedStep == last' # last /\ last'.by = "interceptor"

(* This step ends a request the interceptor had admitted. *)
CompletedStep == BagCardinality(inflight') < BagCardinality(inflight)

(* Usage Records of credential id whose timestamp lies in the window ending at t. *)
InWindow(usage, id, t) == RecentUsage(usage, id, t - RATE_LIMIT_WINDOW)

Unexpired(k, t) == k.expires_at = None \/ k.expires_at[1] > t

(***************************************************************************)
(* C1.  Every request the interceptor does not bypass appends exactly one  *)
(* Usage Record with a non-null status, whether it is rejected (401, 429)  *)
(* or dispatched (answered, or failed because the handler raised).         *)
(***************************************************************************)
C1_OneRecordPerInterceptedRequest ==
    [][(RejectedStep \/ CompletedStep) =>
         /\ Len(api_key_usage') = Len(api_key_usage) + 1
         /\ api_key_usage'[Len(api_key_usage')].response_status # None]_vars

(***************************************************************************)
(* C2.  Requests issued one at a time under an active, unexpired           *)
(* credential of rate_limit N >= 1: a request that finds fewer than N      *)
(* Usage Records of the credential in the trailing window is admitted, one *)
(* that finds N or more is rejected with 429, and the completion of an     *)
(* admitted request adds one record to the window.  Hence, from an empty   *)
(* window, requests 1..N are admitted and request N+1 is rejected.         *)
(***************************************************************************)
C2_SequentialLimit ==
    [][/\ \A k \in api_keys : \A request \in RequestsUnder(k) :
            (/\ inflight = EmptyBag
             /\ k.is_active /\ Unexpired(k, now)
             /\ k.rate_limit # None /\ k.rate_limit[1] >= 1
             /\ Request(request))
            => IF InWindow(api_key_usage, k.id, now) < k.rate_limit[1]
               THEN /\ BagCardinality(inflight') = 1
                    /\ \A call \in BagToSet(inflight') : call.api_key.id = k.id
               ELSE /\ last'.by = "interceptor" /\ last'.status = 429
                    /\ inflight' = inflight
       /\ \A call \in BagToSet(inflight) :
            (/\ BagCardinality(inflight) = 1
             /\ \E k \in api_keys : k.id = call.api_key.id
             /\ Complete(call))
            => InWindow(api_key_usage', call.api_key.id, now)
                 = InWindow(api_key_usage, call.api_key.id, now) + 1]_vars

(* Request N+1 was rejected: N records in the window, the answer is 429. *)
C2_Witness ==
    \E k \in api_keys :
      /\ k.rate_limit = Some(2)
      /\ InWindow(api_key_usage, k.id, now) = 2
      /\ inflight = EmptyBag
      /\ last.by = "interceptor" /\ last.status = 429

(***************************************************************************)
(* C3.  Credential of rate_limit 2, three requests in one window: after    *)
(* the third was answered 429, the owner's GET /keys/{id}/usage returns    *)
(* three Usage Records, the newest carrying status 429.                    *)
(***************************************************************************)
C3_UsageListsTheRejectedRequest ==
    [][\A k \in api_keys :
         (/\ k.rate_limit = Some(2)
          /\ InWindow(api_key_usage, k.id, now) = 2
          /\ inflight = EmptyBag
          /\ last.by = "interceptor" /\ last.status = 429
          /\ \E h \in BypassHeaderInputs :
               Request([token |-> TokenFor(k.owner_id), key_id |-> k.id, op |-> "usage",
                        header |-> h]))
         => /\ last'.status = 200
            /\ Len(last'.body) = 3
            /\ last'.body[1].response_status = Some(429)]_vars

(***************************************************************************)
(* C8.  From a store with an Account and no Credential, POST /token with   *)
(* the right password and then POST /keys, both without a credential       *)
(* header, are not rejected by the interceptor.                            *)
(***************************************************************************)
C8_FirstCredentialWithoutHeader ==
    [][/\ \A f \in LoginInputs :
            (api_keys = {} /\ Request([form_data |-> f, op |-> "login", header |-> None]))
            => last'.by # "interceptor"
       /\ \A x \in GateCreateInputs :
            (api_keys = {} /\ Request([token |-> TokenFor(1), api_key_in |-> x,
                                       op |-> "create", header |-> None]))
            => last'.by # "interceptor"]_vars

(***************************************************************************)
(* C4.  Ownership isolation of the management surface: GET /keys returns   *)
(* exactly the caller's credentials (of the given service when one is      *)
(* given); get, update, delete and usage-listing on an id the caller does  *)
(* not own answer 404 "API key not found" with an empty body, whether the  *)
(* id belongs to another Account or to nobody, and leave the credentials   *)
(* and the Usage Ledger as they were.                                      *)
(***************************************************************************)
OwnedBy(u, id) == \E k \in api_keys : k.id = id /\ k.owner_id = u

NotFoundUnchanged ==
    /\ last'.status = 404 /\ last'.detail = "API key not found" /\ last'.body = <<>>
    /\ UNCHANGED <<api_keys, api_key_usage, next_key_id>>

C4_OwnershipIsolation ==
    [][\A u \in DOMAIN Accounts :
         LET request == last'.request IN
         (/\ request.op \in {"list", "get", "update", "delete", "usage"}
          /\ request.token = TokenFor(u)
          /\ Request(request))
         => /\ request.op = "list" =>
                 /\ last'.status = 200
                 /\ {last'.body[i] : i \in DOMAIN last'.body}
                      = {APIKeyResponse(k) : k \in
                           {k \in api_keys :
                              /\ k.owner_id = u
                              /\ request.service_name # None
                                   => k.service_name = request.service_name[1]}}
                 /\ UNCHANGED <<api_keys, api_key_usage, next_key_id>>
            /\ (request.op # "list" /\ ~OwnedBy(u, request.key_id))
                 => NotFoundUnchanged]_vars

(* Both ids are credentials, of different Accounts, and the last answer to  *)
(* a single-credential operation was 404: it was given to a non-owner.      *)
C4_Witness ==
    /\ last.op \in {"get", "update", "delete", "usage"}
    /\ last.status = 404
    /\ \E k1, k2 \in api_keys : k1.id = 1 /\ k2.id = 2 /\ k1.owner_id # k2.owner_id

(***************************************************************************)
(* C5.  The plaintext secret of a create or update request appears in no   *)
(* response of the management surface and in no Credential column other    *)
(* than the encrypted payload.                                             *)
(***************************************************************************)
HoldsSecret(key_metadata) == "api_key" \in DOMAIN key_metadata

C5_SecretNeverInPlaintext ==
    /\ \A k \in api_keys : ~HoldsSecret(k.key_metadata)
    /\ last.op \in {"create", "list", "get", "update"}
         => \A i \in DOMAIN last.body : ~HoldsSecret(last.body[i].key_metadata)

(***************************************************************************)
(* C6.  A request under a credential whose expires_at is at or before the  *)
(* current time is rejected with 401 "API key has expired" and is not      *)
(* dispatched, whether the credential is under its rate limit or at/over   *)
(* it.                                                                     *)
(***************************************************************************)
C6_ExpiredIs401 ==
    [][\A k \in api_keys : \A request \in RequestsUnder(k) :
         (/\ k.is_active
          /\ k.expires_at # None /\ k.expires_at[1] <= now
          /\ Request(request))
         => /\ last'.by = "interceptor" /\ last'.status = 401
            /\ last'.detail = "API key has expired"
            /\ UNCHANGED <<api_keys, api_key_usage, inflight>>]_vars

(* An expired credential that is at its limit was answered "expired". *)
C6_Witness ==
    /\ last.by = "interceptor" /\ last.status = 401
    /\ last.detail = "API key has expired"
    /\ \E k \in api_keys :
         /\ k.is_active /\ k.expires_at # None /\ k.expires_at[1] <= now
         /\ InWindow(api_key_usage, k.id, now) >= k.rate_limit[1]

(* The same, for a credential under its limit. *)
C6_WitnessUnderLimit ==
    /\ last.by = "interceptor" /\ last.status = 401
    /\ last.detail = "API key has expired"
    /\ \E k \in api_keys :
         /\ k.is_active /\ k.expires_at # None /\ k.expires_at[1] <= now
         /\ InWindow(api_key_usage, k.id, now) < k.rate_limit[1]

(***************************************************************************)
(* C7.  A request outside /api or under /api/keys reaches its handler      *)
(* whatever its credential header, is never answered by the interceptor,   *)
(* and leaves the Usage Ledger and the usage counter and last_used_at of   *)
(* every Credential unchanged.  (Every action of SpecKeys is such a        *)
(* request.)                                                               *)
(***************************************************************************)
C7_BypassFrame ==
    [][(/\ last'.request.op # "none"
        /\ SkipsMiddleware(PathOf(last'.request.op))
        /\ Request(last'.request))
       => /\ last'.by = "handler"
          /\ api_key_usage' = api_key_usage
          /\ \A k \in api_keys : \A k2 \in api_keys' :
               k.id = k2.id => /\ k2.usage_count = k.usage_count
                               /\ k2.last_used_at = k.last_used_at]_vars

(***************************************************************************)
(* C9.  Round trip.  After a create with metadata complete for a service   *)
(* of the registry, the stored payload of the new credential (the one get  *)
(* returns to its owner) decrypts to the secret of the request; after an   *)
(* update that replaces the metadata it decrypts to the new secret.  The   *)
(* secrets submitted include the empty string.                             *)
(***************************************************************************)
Stored(keys, id) == CHOOSE k \in keys : k.id = id

C10_InvalidCreateIs400 ==
    [][\A u \in DOMAIN Accounts :
         LET request == last'.request
             x       == request.api_key_in
         IN
         (/\ request.op = "create"
          /\ request.token = TokenFor(u)
          /\ ~ValidFor(x.service_name, x.key_metadata)
          /\ Request(request))
         => /\ last'.status = 400
            /\ UNCHANGED <<api_keys, api_key_usage, next_key_id>>]_vars

C10_Witness == last.op = "create" /\ last.status = 400 /\ api_keys = {SeedKey}

(***************************************************************************)
(* C11.  A credential-management request whose bearer token does not       *)
(* verify (malformed, wrongly signed or expired) is answered 401 and       *)
(* leaves the credentials and the Usage Ledger unchanged.                  *)
(***************************************************************************)
C11_BadTokenIs401 ==
    [][LET request == last'.request IN
       (/\ request.op \in {"create", "list", "get", "update", "delete", "usage"}
        /\ ~verify_token(request.token, now).ok
        /\ Request(request))
       => /\ last'.status = 401
          /\ UNCHANGED <<api_keys, api_key_usage, next_key_id>>]_vars

(***************************************************************************)
(* C12.  A delete by the owner removes the Credential, and every Usage     *)
(* Record written under it stays in the ledger with its credential id,     *)
(* timestamp, status and error as they were.                               *)
(***************************************************************************)
C12_DeleteKeepsLedger ==
    [][\A u \in DOMAIN Accounts :
         LET request == last'.request IN
         (/\ request.op = "delete"
          /\ request.token = TokenFor(u)
          /\ OwnedBy(u, request.key_id)
          /\ Request(request))
         => /\ last'.status = 200
            /\ \A k \in api_keys' : k.id # request.key_id
            /\ Len(api_key_usage') = Len(api_key_usage)
            /\ \A i \in DOMAIN api_key_usage :
                 /\ api_key_usage'[i].api_key_id = api_key_usage[i].api_key_id
                 /\ api_key_usage'[i].timestamp = api_key_usage[i].timestamp
                 /\ api_key_usage'[i].response_status = api_key_usage[i].response_status
                 /\ api_key_usage'[i].error_message = api_key_usage[i].error_message]_vars

(***************************************************************************)
(* SpecToken: session tokens.  A token is issued by create_access_token    *)
(* for a subject with a supplied lifetime or none, and verify_token is     *)
(* applied to it, or to a copy signed with another key, as the clock       *)
(* advances.  `last` holds the token issued (in body) and, after a         *)
(* verification, its outcome.                                              *)
(***************************************************************************)
LifetimeInputs == {None} \cup {Some(d) : d \in 0 .. MaxTime}

IssueToken ==
    \E s \in DOMAIN Accounts, d \in LifetimeInputs :
      /\ last' = [status |-> 200, detail |-> "", body |-> <<create_access_token(s, d, now)>>,
                  raised |-> FALSE, api_key_id |-> None, op |-> "issue",
                  request |-> [subject |-> s, expires_delta |-> d, op |-> "issue",
                               issued_at |-> now],
                  by |-> "handler"]
      /\ UNCHANGED <<users, api_keys, api_key_usage, next_key_id, now, inflight>>

VerifyToken ==
    /\ last.op \in {"issue", "verify"}
    /\ \E sig \in {SECRET_KEY, SECRET_KEY + 1} :
       LET issued     == IF last.op = "issue" THEN last.body[1] ELSE last.request.token
           token      == [issued EXCEPT !.sig = sig]
           issue      == IF last.op = "issue" THEN last.request ELSE last.request.issue
           token_data == verify_token(token, now)
       IN  last' = [status |-> IF token_data.ok THEN 200 ELSE 500,
                    detail |-> IF token_data.ok THEN "" ELSE token_data.error,
                    body |-> IF token_data.ok THEN <<token_data.value>> ELSE <<>>,
                    raised |-> ~token_data.ok, api_key_id |-> None, op |-> "verify",
                    request |-> [token |-> token, op |-> "verify", issue |-> issue],
                    by |-> "handler"]
    /\ UNCHANGED <<users, api_keys, api_key_usage, next_key_id, now, inflight>>

NextToken == Tick \/ IssueToken \/ VerifyToken

SpecToken == Init /\ [][NextToken]_vars

(***************************************************************************)
(* C13.  A token issued for subject s with a supplied lifetime d >= 0      *)
(* verifies, with sub = s, at every time before issue time + d and fails   *)
(* at every time after it; the default lifetime is applied only when no    *)
(* lifetime is supplied.                                                   *)
(***************************************************************************)
C13_TokenLifetime ==
    last.op = "verify" =>
      LET issue == last.request.issue
          token == last.request.token
      IN  token.sig = SECRET_KEY =>
          IF issue.expires_delta = None
          THEN token.exp = issue.issued_at + ACCESS_TOKEN_EXPIRE_MINUTES
          ELSE LET d == issue.expires_delta[1] IN
               /\ now < issue.issued_at + d
                    => /\ last.status = 200
                       /\ last.body[1].sub = StrOf(issue.subject)
               /\ now > issue.issued_at + d => last.raised

(***************************************************************************)
(* SpecMonitor: the monitoring operations over ledgers the gateway builds. *)
(* The store starts with two credentials of account 1 and at most one      *)
(* usage record, written days ago under the second; proxied calls add      *)
(* records and DELETE /keys removes a credential.  rate_limit is NULL on   *)
(* the first row in half of the initial states: the column is nullable and *)
(* a row inserted without it has no value there.                           *)
(***************************************************************************)
DaysInputs == {1, 30}

MonitorServiceInputs == {None, Some("tmdb")}

(* Timestamps of the seeded record: just outside the 30-day window, and    *)
(* inside the 1-day window until the clock reaches MaxTime.                *)
SeedTimestamps == {0 - 30 * MinutesPerDay - 1, 1 - MinutesPerDay}

SeedLedgers ==
    {<<>>} \cup
    {<<[SeedUsage EXCEPT !.api_key_id = Some(2), !.timestamp = t,
                          !.response_status = Some(500),
                          !.error_message = Some("ClientError")]>>
       : t \in SeedTimestamps}

InitMonitor ==
    /\ users = Accounts
    /\ \E ledger \in SeedLedgers, rl \in {None, Some(1)} :
         /\ api_key_usage = ledger
         /\ api_keys =
              {[SeedKey EXCEPT !.rate_limit = rl, !.usage_count = 0, !.last_used_at = None],
               [SeedKey EXCEPT !.id = 2,
                               !.service_name = "weather",
                               !.encrypted_key = encrypt_api_key(<<1, 2>>, 1),
                               !.rate_limit = Some(1),
                               !.usage_count = Len(ledger),
                               !.last_used_at = IF ledger = <<>> THEN None
                                                ELSE Some(ledger[1].timestamp)]}
    /\ next_key_id = 3
    /\ now = 0
    /\ inflight = EmptyBag
    /\ last = NoResponse

(* A monitoring operation reads the store and answers; `outcome` is what   *)
(* it returned or raised.                                                  *)
MonitorAnswers(outcome, request) ==
    /\ last' = [status |-> IF outcome.ok THEN 200 ELSE 500,
                detail |-> IF outcome.ok THEN "" ELSE outcome.error,
                body |-> IF outcome.ok THEN <<outcome.value>> ELSE <<>>,
                raised |-> ~outcome.ok,
                api_key_id |-> None,
                op |-> request.op,
                request |-> request,
                by |-> "monitor"]
    /\ UNCHANGED <<users, api_keys, api_key_usage, next_key_id, now, inflight>>

UsageStatistics ==
    \E sn \in MonitorServiceInputs, days \in DaysInputs :
      MonitorAnswers(get_usage_statistics(DB, sn, days, now),
                     [service_name |-> sn, op |-> "usage_statistics", days |-> days])

ErrorReport ==
    \E sn \in MonitorServiceInputs, days \in DaysInputs :
      \E outcome \in get_error_report(DB, sn, days, now) :
        MonitorAnswers(outcome, [service_name |-> sn, op |-> "error_report", days |-> days])

RateLimitStatus ==
    \E id \in KeyIdInputs :
      MonitorAnswers(get_rate_limit_status(DB, id, now),
                     [key_id |-> id, op |-> "rate_limit_status"])

(* GET /api/health (monitor.py): the answer of get_system_health. *)
SystemHealth ==
    \E db_alive \in BOOLEAN :
      MonitorAnswers(get_system_health(db_alive, now),
                     [op |-> "system_health", db_alive |-> db_alive])

(* GET /health (main.py): the handler answers without touching the         *)
(* database, whatever its state.                                           *)
GetHealthWhile ==
    \E db_alive \in BOOLEAN, r \in health_check(DB) :
      MonitorAnswers(Ok([status |-> r.detail]),
                     [op |-> "health", db_alive |-> db_alive])

NextMonitor ==
    \/ Tick
    \/ DeleteKey({None}, GateTokenInputs)
    \/ ServiceCall
    \/ Finish
    \/ UsageStatistics
    \/ ErrorReport
    \/ RateLimitStatus
    \/ SystemHealth
    \/ GetHealthWhile

SpecMonitor == InitMonitor /\ [][NextMonitor]_vars


(***************************************************************************)
(* Claims about the monitoring operations.  A step that leaves the store,  *)
(* the clock and the calls in flight alone and ends with an answer of      *)
(* operation op in `last` is a step of that operation.                     *)
(***************************************************************************)
InDaysWindow(usage, days, utcnow) ==
    {i \in DOMAIN usage : usage[i].timestamp >= utcnow - days * MinutesPerDay}

Answered(op) ==
    /\ last'.op = op
    /\ UNCHANGED <<users, api_keys, api_key_usage, next_key_id, now, inflight>>

(* C14: for any ledger the gateway's operations reach, records of deleted  *)
(* credentials included, and any days, usage_statistics(days) without a    *)
(* service filter returns total_requests equal to the number of usage      *)
(* records whose timestamp lies in the trailing days window.               *)
C14_TotalRequestsCountsWindow ==
    [][LET request == last'.request IN
       (/\ Answered("usage_statistics")
        /\ request.service_name = None)
       => /\ ~last'.raised
          /\ last'.body[1].period_days = request.days
          /\ last'.body[1].total_requests =
               Cardinality(InDaysWindow(api_key_usage, request.days, now))]_vars

(* Statistics over one day were answered for a ledger that holds a record  *)
(* of a deleted credential inside the window and a record outside it.      *)
C14_Witness ==
    /\ last.op = "usage_statistics"
    /\ last.request.service_name = None
    /\ last.request.days = 1
    /\ \E i \in InDaysWindow(api_key_usage, 1, now) : api_key_usage[i].api_key_id = None
    /\ \E i \in DOMAIN api_key_usage : i \notin InDaysWindow(api_key_usage, 1, now)
    /\ last.body # <<>>
    /\ last.body[1].total_requests = Cardinality(InDaysWindow(api_key_usage, 1, now))


(* The records error_report is to list: in the window, with an error, and  *)
(* under a credential of the service when one is given.                    *)
ExpectedErrors(request) ==
    {i \in InDaysWindow(api_key_usage, request.days, now) :
       /\ api_key_usage[i].error_message # None
       /\ request.service_name # None =>
            \E k \in api_keys : /\ api_key_usage[i].api_key_id = Some(k.id)
                                /\ k.service_name = request.service_name[1]}

(* C15: error_report(service_name?, days) returns, without raising,        *)
(* exactly the usage records of the trailing days window whose error is    *)
(* non-null (of the given service when one is given), newest first, for    *)
(* every ledger the gateway's operations reach, also after a credential    *)
(* with recorded errors was deleted.                                       *)
C15_ErrorReportListsErrors ==
    [][LET request  == last'.request
           expected == ExpectedErrors(request)
       IN  Answered("error_report")
           => /\ ~last'.raised
              /\ Len(last'.body[1]) = Cardinality(expected)
              /\ \A i \in expected : \E n \in DOMAIN last'.body[1] :
                   /\ last'.body[1][n].timestamp = api_key_usage[i].timestamp
                   /\ last'.body[1][n].endpoint = api_key_usage[i].endpoint
                   /\ last'.body[1][n].status = api_key_usage[i].response_status
                   /\ last'.body[1][n].error = api_key_usage[i].error_message
              /\ \A n, m \in DOMAIN last'.body[1] :
                   n < m => last'.body[1][n].timestamp >= last'.body[1][m].timestamp]_vars


C17_HealthReflectsProbe ==
    [][\A op \in {"health", "system_health"} :
         Answered(op)
         => /\ ~last'.raised
            /\ last'.body[1].status = "healthy" => last'.request.db_alive
            /\ ~last'.request.db_alive
                 => /\ last'.body[1].status = "unhealthy"
                    /\ last'.body[1].components.database = "unhealthy"]_vars


(***************************************************************************)
(* Claims about the order of the interceptor's checks and about            *)
(* concurrent requests.                                                    *)
(***************************************************************************)
ActiveMatches(header) ==
    {k \in api_keys : header # None /\ k.encrypted_key = header[1] /\ k.is_active}

Expired(k) == k.expires_at # None /\ k.expires_at[1] <= now

(* C18: an intercepted request reaches the handler only after the header   *)
(* was present, it named an active credential, the credential was          *)
(* unexpired and check_rate_limit returned true, in this order; a failure  *)
(* answers 401, 401, 401 and 429 respectively and skips the later steps,   *)
(* so a credential that is inactive or expired and also over its limit     *)
(* gets 401, not 429.                                                      *)
C18_ChecksInOrder ==
    [][/\ (last'.by = "interceptor" /\ inflight' = inflight /\ Request(last'.request))
          => LET header   == last'.request.header
                 matching == ActiveMatches(header)
             IN  /\ UNCHANGED <<api_keys, api_key_usage>>
                 /\ header = None
                      => last'.status = 401 /\ last'.detail = "API key is required"
                 /\ (header # None /\ matching = {})
                      => last'.status = 401 /\ last'.detail = "Invalid API key"
                 /\ (matching # {} /\ \A k \in matching : Expired(k))
                      => last'.status = 401 /\ last'.detail = "API key has expired"
                 /\ (matching # {} /\ \A k \in matching :
                                        ~Expired(k) /\ ~check_rate_limit(k, DB, now))
                      => last'.status = 429 /\ last'.detail = "Rate limit exceeded"
       /\ \A call \in BagToSet(inflight') :
            CopiesIn(call, inflight') > CopiesIn(call, inflight)
            => \E k \in ActiveMatches(call.request.header) :
                 /\ k.id = call.api_key.id
                 /\ ~Expired(k)
                 /\ check_rate_limit(k, DB, now)]_vars

(* A request under a deactivated credential that is at its limit was       *)
(* answered 401 "Invalid API key".                                         *)
C18_Witness ==
    /\ last.by = "interceptor" /\ last.status = 401
    /\ last.detail = "Invalid API key"
    /\ \E k \in api_keys :
         /\ last.request.header = Some(k.encrypted_key)
         /\ ~k.is_active
         /\ ~Expired(k)
         /\ ~check_rate_limit(k, DB, now)


RecordsUnder(key_id) ==
    Cardinality({i \in DOMAIN api_key_usage : api_key_usage[i].api_key_id = Some(key_id)})

(* C19: after any interleaving of concurrently handled intercepted         *)
(* requests, and after any sequential run, each credential's usage_count   *)
(* equals the number of usage records written under it: no increment is    *)
(* lost.                                                                   *)
C19_CounterMatchesLedger ==
    \A k \in api_keys : k.usage_count = RecordsUnder(k.id)


(***************************************************************************)
(* SpecOverrun: concurrent proxied calls under credentials with a small    *)
(* limit.  Credential c (c in 1 .. MaxConcurrent) is called by clients     *)
(* that keep at most c requests in flight under it at any time; the ledger *)
(* may grow to OverrunUsage records.                                       *)
(***************************************************************************)
MaxConcurrent == 2

OverrunLimit == 1

OverrunUsage == 4

InitOverrun ==
    /\ users = Accounts
    /\ api_keys = {[SeedKey EXCEPT !.id = c,
                                   !.encrypted_key = encrypt_api_key(<<1, 2>>, c - 1),
                                   !.rate_limit = Some(OverrunLimit),
                                   !.usage_count = 0,
                                   !.last_used_at = None] : c \in 1 .. MaxConcurrent}
    /\ api_key_usage = <<>>
    /\ next_key_id = MaxConcurrent + 1
    /\ now = 0
    /\ inflight = EmptyBag
    /\ last = NoResponse

InFlightUnder(key_id) ==
    LET calls == {call \in BagToSet(inflight) : call.api_key.id = key_id}
    IN  SumOver([call \in calls |-> CopiesIn(call, inflight)], calls)

ConcurrentCall ==
    \E k \in api_keys :
      /\ InFlightUnder(k.id) < k.id
      /\ RequestCapped([op |-> "service", header |-> Some(k.encrypted_key)],
                       MaxConcurrent * MaxConcurrent, OverrunUsage)

NextOverrun ==
    \/ Tick
    \/ ConcurrentCall
    \/ Finish

SpecOverrun == InitOverrun /\ [][NextOverrun]_vars

(* The records of a credential inside the window that ends at time t. *)
RecordsInWindowAt(key_id, t) ==
    Cardinality({i \in DOMAIN api_key_usage :
                   /\ api_key_usage[i].api_key_id = Some(key_id)
                   /\ api_key_usage[i].timestamp >= t - RATE_LIMIT_WINDOW
                   /\ api_key_usage[i].timestamp <= t})

(* C20: when at most C requests of one credential with limit N are in      *)
(* flight at the same time, the admitted requests whose usage records fall *)
(* inside any one trailing window never number more than N + C - 1 (and    *)
(* never more than N when C = 1).                                          *)
C20_BoundedOverrun ==
    \A k \in api_keys : \A t \in 0 .. now :
      RecordsInWindowAt(k.id, t) <= k.rate_limit[1] + k.id - 1

(* The bound is met: the credential with two concurrent clients has        *)
(* N + 1 records in one window, the one with a single client has N.        *)
C20_Witness ==
    /\ \E k \in api_keys :
         k.id = 2 /\ RecordsInWindowAt(k.id, now) = k.rate_limit[1] + 1
    /\ \E k \in api_keys :
         k.id = 1 /\ RecordsInWindowAt(k.id, now) = k.rate_limit[1]


(***************************************************************************)
(* Claims about the record of a dispatched request and about the ledger.   *)
(***************************************************************************)
(* C21: for every intercepted request that reaches the handler, the usage  *)
(* record is written after the handler finished, once, with the status of  *)
(* the handler's response and a null error, or with 500 and the            *)
(* exception's text when the handler raised.                               *)
C21_RecordAfterHandler ==
    [][CompletedStep
       => /\ Len(api_key_usage') = Len(api_key_usage) + 1
          /\ LET usage == api_key_usage'[Len(api_key_usage')] IN
             /\ usage.api_key_id = last'.api_key_id
             /\ usage.timestamp = now
             /\ IF last'.raised
                THEN usage.response_status = Some(500)
                     /\ usage.error_message = Some(last'.detail)
                ELSE usage.response_status = Some(last'.status)
                     /\ usage.error_message = None]_vars


(* C22: the ledger is append-only.  No operation of the gateway removes a  *)
(* usage record or changes the timestamp, endpoint, status, latency or     *)
(* error of a record already written: the records of one state are among   *)
(* the records of every later state.                                       *)
C22_LedgerAppendOnly ==
    [][/\ Len(api_key_usage') >= Len(api_key_usage)
       /\ \A i \in DOMAIN api_key_usage :
            /\ api_key_usage'[i].id = api_key_usage[i].id
            /\ api_key_usage'[i].timestamp = api_key_usage[i].timestamp
            /\ api_key_usage'[i].endpoint = api_key_usage[i].endpoint
            /\ api_key_usage'[i].response_status = api_key_usage[i].response_status
            /\ api_key_usage'[i].response_time = api_key_usage[i].response_time
            /\ api_key_usage'[i].error_message = api_key_usage[i].error_message]_vars

(* The credential of a recorded request was deleted and its record is      *)
(* still in the ledger.                                                    *)
C22_Witness ==
    /\ last.op = "delete" /\ last.status = 200
    /\ api_keys = {}
    /\ \E i \in DOMAIN api_key_usage : api_key_usage[i].timestamp < now


(***************************************************************************)
(* Claims about the credential-management surface.                         *)
(***************************************************************************)
(* C23: an update by the owner with a supplied metadata map that lacks a   *)
(* field the registry requires for the credential's service is answered    *)
(* 400 and leaves the credential's encrypted key, metadata, active flag    *)
(* and rate limit unchanged, for every supplied map, the empty one         *)
(* included.                                                               *)
C23_InvalidUpdateIs400 ==
    [][\A k \in api_keys :
         LET request == last'.request
             x       == request.api_key_in
         IN
         (/\ request.op = "update"
          /\ request.token = TokenFor(k.owner_id)
          /\ request.key_id = k.id
          /\ x.key_metadata # None
          /\ k.service_name \in DOMAIN API_SERVICES
          /\ FirstMissing(API_SERVICES[k.service_name].required_fields,
                          x.key_metadata[1]) # None
          /\ Request(request))
         => /\ last'.status = 400
            /\ UNCHANGED <<api_keys, api_key_usage, next_key_id>>]_vars


(***************************************************************************)
(* SpecStats: usage statistics over ledgers whose records carry different  *)
(* latencies.  The store holds the two credentials of SpecMonitor and up   *)
(* to two records written a minute ago under the second; proxied calls,    *)
(* one at a time, add records whose latency is the time the handler took.  *)
(***************************************************************************)
MaxLatency == 2

StatsUsage == 3

StatsRecords ==
    {[SeedUsage EXCEPT !.api_key_id = Some(2), !.timestamp = 0 - 1, !.response_time = rt]
       : rt \in {0, MaxLatency}}

StatsLedgers ==
    {<<>>} \cup {<<a>> : a \in StatsRecords}
           \cup {<<a, [b EXCEPT !.id = 2]>> : a \in StatsRecords, b \in StatsRecords}

InitStats ==
    /\ users = Accounts
    /\ \E ledger \in StatsLedgers :
         /\ api_key_usage = ledger
         /\ api_keys =
              {[SeedKey EXCEPT !.usage_count = 0, !.last_used_at = None],
               [SeedKey EXCEPT !.id = 2,
                               !.service_name = "weather",
                               !.encrypted_key = encrypt_api_key(<<1, 2>>, 1),
                               !.usage_count = Len(ledger),
                               !.last_used_at = IF ledger = <<>> THEN None
                                                ELSE Some(0 - 1)]}
    /\ next_key_id = 3
    /\ now = 0
    /\ inflight = EmptyBag
    /\ last = NoResponse

StatsCall ==
    \E k \in api_keys :
      RequestCapped([op |-> "service", header |-> Some(k.encrypted_key)], 1, StatsUsage)

NextStats ==
    \/ Tick
    \/ StatsCall
    \/ Finish
    \/ UsageStatistics

SpecStats == InitStats /\ [][NextStats]_vars

(* The records usage_statistics is to aggregate: in the window, and under  *)
(* a credential of the service when one is given.                          *)
ExpectedRows(request) ==
    {i \in InDaysWindow(api_key_usage, request.days, now) :
       request.service_name # None =>
         \E k \in api_keys : /\ api_key_usage[i].api_key_id = Some(k.id)
                             /\ k.service_name = request.service_name[1]}

(* C24: usage_statistics returns avg_response_time equal to the sum of the *)
(* latencies of the records in the window divided by their number (0 when  *)
(* there is none), also when the records belong to several credentials     *)
(* with different numbers of records, and total_errors equal to the number *)
(* of records in the window with a non-null error.                         *)
C24_AverageOverRecords ==
    [][Answered("usage_statistics")
       => LET rows    == ExpectedRows(last'.request)
              latency == [i \in rows |-> api_key_usage[i].response_time]
              avg     == last'.body[1].avg_response_time
          IN  /\ last'.body[1].total_errors =
                   Cardinality({i \in rows : api_key_usage[i].error_message # None})
              /\ rows = {} => avg[1] = 0
              /\ rows # {} => avg[1] * Cardinality(rows) = SumOver(latency, rows) * avg[2]]_vars


(***************************************************************************)
(* Claims about the rate limit over time.                                  *)
(***************************************************************************)
(* C25: a credential rejected with 429 becomes admissible again without a  *)
(* management action.  A request under it is rejected with 429 only while  *)
(* N of its usage records lie in the trailing window, so not later than    *)
(* one window length after its last recorded request, however many         *)
(* requests were rejected in between.                                      *)
C25_RejectedOnlyWhileWindowFull ==
    [][(/\ last'.by = "interceptor" /\ last'.status = 429
        /\ inflight' = inflight
        /\ Request(last'.request))
       => \E k \in ActiveMatches(last'.request.header) :
            /\ InWindow(api_key_usage, k.id, now)
                 >= OrElse(k.rate_limit, RATE_LIMIT_PER_MINUTE)
            /\ \E i \in DOMAIN api_key_usage :
                 /\ api_key_usage[i].api_key_id = Some(k.id)
                 /\ now - api_key_usage[i].timestamp <= RATE_LIMIT_WINDOW]_vars

(* The last answer under a credential was 429, its records have left the   *)
(* window since, and a request under it is in the handler now.             *)
C25_Witness ==
    /\ last.by = "interceptor" /\ last.status = 429
    /\ \E k \in ActiveMatches(last.request.header) :
         /\ RecordsUnder(k.id) >= OrElse(k.rate_limit, RATE_LIMIT_PER_MINUTE)
         /\ InWindow(api_key_usage, k.id, now) = 0
         /\ \E call \in BagToSet(inflight) :
              call.api_key.id = k.id /\ call.start_time = now


(* C26: every credential stored through the management surface has a rate  *)
(* limit that is neither null nor 0, in every reachable state.  A create   *)
(* with rate_limit unset or 0 stores RATE_LIMIT_PER_MINUTE, an update with *)
(* rate_limit unset or 0 leaves the stored limit as it was, and            *)
(* check_rate_limit treats a stored null or 0 as RATE_LIMIT_PER_MINUTE.    *)
C26_LimitNeverUnset ==
    [][LET request == last'.request
           unset(x) == x.rate_limit = None \/ x.rate_limit = Some(0)
       IN
       /\ \A k \in api_keys' : k.rate_limit # None /\ k.rate_limit[1] # 0
       /\ (request.op = "create" /\ last'.status = 200
             /\ unset(request.api_key_in) /\ Request(request))
          => \A k \in api_keys' \ api_keys : k.rate_limit = Some(RATE_LIMIT_PER_MINUTE)
       /\ (request.op = "update" /\ last'.status = 200
             /\ unset(request.api_key_in) /\ Request(request))
          => \A k \in api_keys : \A k2 \in api_keys' :
               k.id = k2.id => k2.rate_limit = k.rate_limit
       /\ request.op \in {"create", "update"}
          => \A k \in api_keys : \A rl \in {None, Some(0)} :
               check_rate_limit([k EXCEPT !.rate_limit = rl], DB, now)
                 = check_rate_limit([k EXCEPT !.rate_limit = Some(RATE_LIMIT_PER_MINUTE)],
                                    DB, now)]_vars

(* A create that sent rate_limit 0 was answered with a credential whose    *)
(* limit is the default.                                                   *)
C26_Witness ==
    /\ last.op = "create" /\ last.status = 200
    /\ last.request.api_key_in.rate_limit = Some(0)
    /\ \E k \in api_keys :
         k.id = last.body[1].id /\ k.rate_limit = Some(RATE_LIMIT_PER_MINUTE)


(***************************************************************************)
(* SpecAccess: two accounts with credentials of their own.  Account 1      *)
(* holds a tmdb and an espn credential, account 2 a tmdb credential;       *)
(* account 2 can deactivate itself.  Both accounts use the management      *)
(* surface, the monitoring route for rate limits and the tmdb search.      *)
(***************************************************************************)
AccessUsage == 2
AccessKeys == 4

AccessTokens == {TokenFor(u) : u \in DOMAIN Accounts}

InitAccess ==
    /\ users = Accounts
    /\ api_keys =
         {[SeedKey EXCEPT !.usage_count = 0, !.last_used_at = None],
          [SeedKey EXCEPT !.id = 2,
                          !.encrypted_key = encrypt_api_key(<<1, 2>>, 1),
                          !.usage_count = 0, !.last_used_at = None,
                          !.owner_id = 2],
          [SeedKey EXCEPT !.id = 3,
                          !.service_name = "espn",
                          !.encrypted_key = encrypt_api_key(<<1, 2>>, 2),
                          !.usage_count = 0, !.last_used_at = None]}
    /\ api_key_usage = <<>>
    /\ next_key_id = 4
    /\ now = 0
    /\ inflight = EmptyBag
    /\ last = NoResponse

(* PUT /api/users/me through the interceptor, taken in one step. *)
PutUsersMe ==
    \E h \in HeaderInputs(api_keys) :
      LET request == [token |-> TokenFor(2), op |-> "deactivate", header |-> h] IN
      /\ \E out \in Authenticate(request, DB, now) :
           IF out.kind = "reject"
           THEN /\ last' = [status |-> out.status, detail |-> out.detail,
                            body |-> <<>>, raised |-> FALSE, api_key_id |-> None,
                            op |-> request.op, request |-> request,
                            by |-> "interceptor"]
                /\ UNCHANGED <<users, api_keys, api_key_usage, next_key_id>>
           ELSE LET r == update_current_user(users, request.token, now)
                    tracked == track_api_key_usage(
                                 DB, request,
                                 [id |-> out.api_key.id,
                                  usage_count |-> out.api_key.usage_count],
                                 r.status, 0, None, now)
                IN /\ Len(api_key_usage) + BagCardinality(inflight) < AccessUsage
                   /\ users' = r.users
                   /\ api_keys' = tracked.value.api_keys
                   /\ api_key_usage' = tracked.value.api_key_usage
                   /\ next_key_id' = tracked.value.next_key_id
                   /\ last' = [status |-> r.status, detail |-> r.detail,
                               body |-> <<>>, raised |-> FALSE,
                               api_key_id |-> Some(out.api_key.id),
                               op |-> request.op, request |-> request,
                               by |-> "handler"]
      /\ UNCHANGED <<now, inflight>>

GetRateLimits ==
    \E h \in HeaderInputs(api_keys), t \in AccessTokens, id \in KeyIdInputs :
      RequestCapped([token |-> t, key_id |-> id, op |-> "rate_limits", header |-> h],
                    1, AccessUsage)

SearchDisneyContent ==
    \E h \in HeaderInputs(api_keys), t \in AccessTokens :
      RequestCapped([token |-> t, op |-> "search", header |-> h], 1, AccessUsage)

NextAccess ==
    \/ DeleteKey({None}, {TokenFor(1)})
    \/ GetRateLimits
    \/ SearchDisneyContent
    \/ Finish

SpecAccess == InitAccess /\ [][NextAccess]_vars

(***************************************************************************)
(* SpecDeactivated: the management surface used by both accounts while     *)
(* account 2 can deactivate itself.                                        *)
(***************************************************************************)
NextDeactivated ==
    \/ PutUsersMe
    \/ PostKeys({None}, AccessTokens, GateCreateInputs, AccessKeys)
    \/ GetKeys({None}, AccessTokens)
    \/ GetKey({None}, AccessTokens)
    \/ PutKey({None}, AccessTokens, GateUpdateInputs)
    \/ DeleteKey({None}, AccessTokens)
    \/ GetKeyUsage({None}, AccessTokens)

SpecDeactivated == InitAccess /\ [][NextDeactivated]_vars


(* The store as it would be if credential k did not exist. *)
WithoutCredential(db, k) == [db EXCEPT !.api_keys = @ \ {k}]

(***************************************************************************)
(* C27: an account without elevated privilege gets, from                   *)
(* GET /monitor/rate-limits/{id} on a credential owned by another          *)
(* account, the answer it would get if that credential did not exist (the  *)
(* request is sent under a credential of its own).                         *)
(***************************************************************************)
C27_NonOwnerLearnsNothing ==
    [][\A k \in api_keys :
         (/\ CompletedStep
          /\ last'.op = "rate_limits"
          /\ ~last'.raised
          /\ last'.request.key_id = k.id
          /\ \E u \in DOMAIN users :
               /\ ~users[u].is_superuser
               /\ last'.request.token = TokenFor(u)
               /\ k.owner_id # u
               /\ \E own \in api_keys :
                    /\ own.owner_id = u
                    /\ last'.request.header = Some(own.encrypted_key))
         => \E r \in Handle(last'.request, WithoutCredential(DB, k), users, now) :
              /\ r.status = last'.status
              /\ r.body = last'.body]_vars


C30_DeactivatedCannotManage ==
    [][\A u \in DOMAIN users :
         LET request == last'.request IN
         (/\ ~users[u].is_active
          /\ request.op \in {"create", "list", "get", "update", "delete", "usage"}
          /\ request.token = TokenFor(u)
          /\ Request(request))
         => /\ last'.status \in {400, 401, 403}
            /\ UNCHANGED <<api_keys, api_key_usage, next_key_id>>]_vars


(***************************************************************************)
(* C29: no operation of the management surface sets expires_at.  Starting  *)
(* from an empty store, every credential created through POST /keys has no *)
(* expiry, keeps none through updates, and the interceptor never answers   *)
(* "API key has expired".                                                  *)
(***************************************************************************)
C29_NoExpiryThroughApi ==
    /\ \A k \in api_keys : k.expires_at = None
    /\ last.detail # "API key has expired"

(* A credential was updated after a request under it was admitted at the   *)
(* latest clock value: it has no expiry and the request is in its handler. *)
C29_Witness ==
    \E k \in api_keys :
      /\ last.op = "update" /\ last.status = 200 /\ last.request.key_id = k.id
      /\ k.expires_at = None
      /\ now = MaxTime
      /\ \E call \in BagToSet(inflight) :
           call.api_key.id = k.id /\ call.start_time = now

====
